---- MODULE Spec2Model ----
(***************************************************************************)
(* Model of src/App.tsx: the Food Waste Preventer component.  The React    *)
(* state of App, the notification service (scheduled daily triggers), the  *)
(* key-value storage and the vibration interval timer are the state; every *)
(* handler, effect and asynchronous continuation of App is an action.      *)
(*                                                                         *)
(* Strings are sequences of one-character strings.  An optional value      *)
(* (T | null) is a sequence of length at most one: <<>> is null.           *)
(*                                                                         *)
(* recent is the payload of the most recent notification event that        *)
(* carried a meal reference (the tap that launched the app included).      *)
(* input and output hold the argument and the result of a function of the  *)
(* source when it is applied on its own (FormatSpec, ParseSpec,            *)
(* SentenceSpec); the app leaves them alone.                               *)
(***************************************************************************)
EXTENDS Integers, Sequences, FiniteSets, Bags, TLC

VARIABLES screen, meals, mealName, dailyTime, activeAlarm, alarmSentence,
          vibrationIntervalRef, timers, vibrating, alert, mounted,
          setupPc, setupRaw, lastResponse, storage,
          triggers, canceledTriggers, addCalls, cancelCalls,
          nextId, clock, finished, early, recent, input, output

vars == <<screen, meals, mealName, dailyTime, activeAlarm, alarmSentence,
          vibrationIntervalRef, timers, vibrating, alert, mounted,
          setupPc, setupRaw, lastResponse, storage,
          triggers, canceledTriggers, addCalls, cancelCalls,
          nextId, clock, finished, early, recent, input, output>>

\* ---------------------------------------------------------------- bounds
\* addMeal calls that pass validation in one run
MaxAdds == 2
\* cancelMealAlarm calls that may be in flight at once
MaxCancelCalls == 2
\* steps of handlers, continuations and services that may run while
\* setupNotifications has not finished
MaxEarlySteps == 8
\* length of the texts given to parseTime on its own
MaxTextLen == 5

\* ------------------------------------------------------------- strings
UpperChars == <<"A","B","C","D","E","F","G","H","I","J","K","L","M",
                "N","O","P","Q","R","S","T","U","V","W","X","Y","Z">>
LowerChars == <<"a","b","c","d","e","f","g","h","i","j","k","l","m",
                "n","o","p","q","r","s","t","u","v","w","x","y","z">>
Digits == <<"0","1","2","3","4","5","6","7","8","9">>

\* String.prototype.toLowerCase, one character
ToLowerChar(c) ==
    IF \E i \in 1..Len(UpperChars) : UpperChars[i] = c
    THEN LowerChars[CHOOSE i \in 1..Len(UpperChars) : UpperChars[i] = c]
    ELSE c

\* String.prototype.toLowerCase
toLowerCase(s) == [i \in 1..Len(s) |-> ToLowerChar(s[i])]

\* the white space String.prototype.trim removes, among the characters used
IsSpace(c) == c \in {" ", "\t", "\n"}

RECURSIVE TrimStart(_)
TrimStart(s) ==
    IF s # <<>> /\ IsSpace(Head(s)) THEN TrimStart(Tail(s)) ELSE s

RECURSIVE TrimEnd(_)
TrimEnd(s) ==
    IF s # <<>> /\ IsSpace(s[Len(s)])
    THEN TrimEnd(SubSeq(s, 1, Len(s) - 1))
    ELSE s

\* String.prototype.trim
trim(s) == TrimEnd(TrimStart(s))

IsDigit(c) == \E i \in 1..Len(Digits) : Digits[i] = c
DigitValue(c) == (CHOOSE i \in 1..Len(Digits) : Digits[i] = c) - 1

\* Number() of a string of decimal digits
RECURSIVE Number(_)
Number(s) ==
    IF s = <<>> THEN 0
    ELSE 10 * Number(SubSeq(s, 1, Len(s) - 1)) + DigitValue(s[Len(s)])

\* the decimal digits of a natural number, Number.prototype.toString
RECURSIVE toString(_)
toString(n) ==
    IF n < 10 THEN <<Digits[n + 1]>>
    ELSE toString(n \div 10) \o <<Digits[(n % 10) + 1]>>

\* String.prototype.padStart(width, '0')
RECURSIVE padStart(_, _)
padStart(s, width) ==
    IF Len(s) >= width THEN s ELSE padStart(<<"0">> \o s, width)

\* variant of formatTime: the numbers are rendered without padding
formatTimeUnpadded(hour, minute) ==
    toString(hour) \o <<":">> \o toString(minute)

formatTime(hour, minute) ==
    padStart(toString(hour), 2) \o <<":">> \o padStart(toString(minute), 2)

\* [01]?\d : an optional 0 or 1, then one digit
MatchHourShort(h) ==
    \/ Len(h) = 1 /\ IsDigit(h[1])
    \/ Len(h) = 2 /\ h[1] \in {"0", "1"} /\ IsDigit(h[2])

\* 2[0-3]
MatchHourTwenty(h) ==
    Len(h) = 2 /\ h[1] = "2" /\ h[2] \in {"0", "1", "2", "3"}

\* [0-5]\d
MatchMinute(m) ==
    Len(m) = 2 /\ m[1] \in {"0", "1", "2", "3", "4", "5"} /\ IsDigit(m[2])

\* the positions at which ^(hour):(minute)$ can split the string
TimeSplits(s) ==
    {k \in 1..Len(s) :
        /\ s[k] = ":"
        /\ MatchHourShort(SubSeq(s, 1, k - 1)) \/ MatchHourTwenty(SubSeq(s, 1, k - 1))
        /\ MatchMinute(SubSeq(s, k + 1, Len(s)))}

\* parseTime: <<>> is null
parseTime(raw) ==
    LET s == trim(raw)
        ks == TimeSplits(s)
    IN IF ks = {} THEN <<>>
       ELSE LET k == CHOOSE k \in ks : TRUE
            IN <<[hour   |-> Number(SubSeq(s, 1, k - 1)),
                  minute |-> Number(SubSeq(s, k + 1, Len(s)))]>>

\* ------------------------------------------------------- inputs and names
NoAlert == "none"

\* the text the user can type into the meal name field
TunaPadded == <<" ","T","u","n","a"," ">>
Blank == <<" ">>
MealNameInputs == {TunaPadded, Blank}

\* the text the user can type into the reminder time field
DefaultDailyTime == <<"1","8",":","0","0">>
DailyTimeInputs == {<<"2","4",":","0","0">>}

\* a meal registered by a previous run of the app, and its daily trigger
Soup == <<"S","o","u","p">>
OldMeal == [id |-> 1, name |-> Soup, hour |-> 12, minute |-> 30,
            notificationId |-> 101, createdAt |-> 0]
OldData == [mealId |-> 1, mealName |-> Soup]
OldTrigger == [identifier |-> 101, hour |-> 12, minute |-> 30, data |-> OldData]

\* a notification whose content.data has neither mealId nor mealName
ForeignData == [mealId |-> 0, mealName |-> <<>>]

SentencePrefix == <<"m","y"," ","n","a","m","e"," ","i","s"," ","s","a","r","a","h"," ","a","n","d"," ","i"," ","w","i","l","l"," ","u","s","e"," ","t","h","e"," ">>
SentenceSuffix == <<" ","t","o","d","a","y">>

\* what the user may type for a meal name: the sentence in mixed case with
\* surrounding blanks, and the same sentence with trailing punctuation
TypedPrefix == <<" ","M","y"," ","N","a","m","e"," ","I","s"," ","S","a","r","a","h"," ","A","n","d"," ","I"," ","W","i","l","l"," ","U","s","e"," ","T","h","e"," ">>
TypedGood(name) == TypedPrefix \o name \o SentenceSuffix \o <<" ">>
TypedBad(name) == SentencePrefix \o toLowerCase(name) \o SentenceSuffix \o <<"!">>

\* ------------------------------------------------------------------ JSON
\* JSON.stringify of a MealEntry[]: each entry as its values in key order
JSONstringify(ms) ==
    [i \in 1..Len(ms) |->
        <<ms[i].id, ms[i].name, ms[i].hour, ms[i].minute,
          ms[i].notificationId, ms[i].createdAt>>]

\* JSON.parse of the stored text
JSONparse(raw) ==
    [i \in 1..Len(raw) |->
        [id |-> raw[i][1], name |-> raw[i][2], hour |-> raw[i][3],
         minute |-> raw[i][4], notificationId |-> raw[i][5],
         createdAt |-> raw[i][6]]]

\* ------------------------------------------------------- derived values
\* useMemo requiredSentence
requiredSentence(alarm) ==
    IF alarm = <<>> THEN <<>>
    ELSE SentencePrefix \o toLowerCase(alarm[1].mealName) \o SentenceSuffix

\* variant of canAcknowledge: the typed text is lowercased but not trimmed
canAcknowledgeUntrimmed(sentence, alarm) ==
    toLowerCase(sentence) = requiredSentence(alarm)

\* useMemo canAcknowledge
canAcknowledge(sentence, alarm) ==
    toLowerCase(trim(sentence)) = requiredSentence(alarm)

\* <Modal visible={Boolean(activeAlarm)}>
ModalVisible == activeAlarm # <<>>

\* meals.find((meal) => meal.id === mealId), <<>> when there is none
FindMeal(ms, mealId) ==
    IF \E i \in 1..Len(ms) : ms[i].id = mealId
    THEN <<ms[CHOOSE i \in 1..Len(ms) :
                /\ ms[i].id = mealId
                /\ \A j \in 1..(i - 1) : ms[j].id # mealId]>>
    ELSE <<>>

\* prev.filter((meal) => meal.id !== mealId)
RECURSIVE FilterOut(_, _)
FilterOut(ms, mealId) ==
    IF ms = <<>> THEN <<>>
    ELSE IF Head(ms).id # mealId
         THEN <<Head(ms)>> \o FilterOut(Tail(ms), mealId)
         ELSE FilterOut(Tail(ms), mealId)

\* setInterval: a handle no live timer has
NewTimer(ts) == CHOOSE i \in 1..(Cardinality(ts) + 1) : i \notin ts

\* ----------------------------------------------------------------- effects
\* variant of VibrationCleanup: a cleanup that stops the vibration but
\* leaves the interval running
VibrationCleanupKeepsInterval(v) ==
    [ref       |-> 0,
     timers    |-> v.timers,
     vibrating |-> FALSE,
     sentence  |-> v.sentence]

\* cleanup returned by the vibration effect of a render with an alarm
VibrationCleanup(v) ==
    [ref       |-> 0,
     timers    |-> IF v.ref # 0 THEN v.timers \ {v.ref} ELSE v.timers,
     vibrating |-> FALSE,
     sentence  |-> v.sentence]

\* body of the vibration effect for the new value of activeAlarm
VibrationBody(v, alarm) ==
    IF alarm = <<>>
    THEN [ref       |-> 0,
          timers    |-> IF v.ref # 0 THEN v.timers \ {v.ref} ELSE v.timers,
          vibrating |-> FALSE,
          sentence  |-> <<>>]
    ELSE [ref       |-> NewTimer(v.timers),
          timers    |-> v.timers \cup {NewTimer(v.timers)},
          vibrating |-> TRUE,
          sentence  |-> v.sentence]

\* useEffect(..., [activeAlarm]) when activeAlarm goes from prev to next
VibrationEffect(prev, next) ==
    LET v0 == [ref |-> vibrationIntervalRef, timers |-> timers,
               vibrating |-> vibrating, sentence |-> alarmSentence]
        v1 == IF prev # <<>> THEN VibrationCleanup(v0) ELSE v0
    IN VibrationBody(v1, next)

\* setActiveAlarm(next) and the effects of the render it causes.  A new
\* object always differs from the previous state; null equals null.
SetActiveAlarm(next) ==
    IF next = <<>> /\ activeAlarm = <<>>
    THEN UNCHANGED <<activeAlarm, alarmSentence, vibrationIntervalRef,
                     timers, vibrating>>
    ELSE LET v == VibrationEffect(activeAlarm, next)
         IN /\ activeAlarm' = next
            /\ alarmSentence' = v.sentence
            /\ vibrationIntervalRef' = v.ref
            /\ timers' = v.timers
            /\ vibrating' = v.vibrating

KeepActiveAlarm ==
    UNCHANGED <<activeAlarm, alarmSentence, vibrationIntervalRef, timers,
                vibrating>>

\* AsyncStorage serves its requests in the order they were issued, and
\* nothing but the getItem of setupNotifications reads the key: a setItem is
\* modelled as taking effect when it is issued, and the getItem as returning
\* what the key held when it was issued.

\* variant of PersistEffect: an effect with no dependencies, which writes
\* after the first render only
PersistEffectMountOnly(ms) ==
    IF mounted THEN storage ELSE <<JSONstringify(ms)>>

\* the persist effect for a meals array: what the key holds after its setItem
PersistEffect(ms) == <<JSONstringify(ms)>>

\* setMeals(ms) and the persist effect of the render it causes
SetMeals(ms) ==
    /\ meals' = ms
    /\ storage' = PersistEffect(ms)

\* -------------------------------------------------------------- initial
\* The component as constructed, before the effects of its first render.
\* The device holds what a previous run left: one stored meal, its daily
\* trigger, and possibly a tap on its notification that launched the app.
AppInit ==
    /\ screen = "tools"
    /\ meals = <<>>
    /\ mealName = <<>>
    /\ dailyTime = DefaultDailyTime
    /\ activeAlarm = <<>>
    /\ alarmSentence = <<>>
    /\ vibrationIntervalRef = 0
    /\ timers = {}
    /\ vibrating = FALSE
    /\ alert = NoAlert
    /\ mounted = FALSE
    /\ setupPc = "mount"
    /\ setupRaw = <<>>
    /\ storage = <<JSONstringify(<<OldMeal>>)>>
    /\ triggers = {OldTrigger}
    /\ lastResponse \in {<<>>, <<OldData>>}
    /\ canceledTriggers = {}
    /\ addCalls = {}
    /\ cancelCalls = EmptyBag
    /\ nextId = 2
    /\ clock = 1
    /\ finished = 0
    /\ early = 0
    /\ recent = lastResponse

\* the initial state of the app: no function is being applied on its own
Init ==
    /\ AppInit
    /\ input = <<>>
    /\ output = <<>>

\* a step that is not of setupNotifications; early counts those taken
\* before setupNotifications has finished
OtherStep ==
    /\ setupPc = "done" \/ setupPc = "unmounted" \/ early < MaxEarlySteps
    /\ early' = IF setupPc \in {"done", "unmounted"} THEN 0 ELSE early + 1

\* groups of variables, for UNCHANGED
alarmVars == <<activeAlarm, alarmSentence, vibrationIntervalRef, timers, vibrating>>
formVars == <<mealName, dailyTime>>
serviceVars == <<triggers, canceledTriggers, lastResponse>>
callVars == <<addCalls, cancelCalls, nextId, clock>>
storeVars == <<meals, storage>>
probeVars == <<input, output>>

\* ------------------------------------------------------ startup (67-109)
\* the effects of the first render, in order: setupNotifications is started
\* (it calls getPermissionsAsync), the persist effect writes the initial
\* meals, the listeners are subscribed, the vibration effect runs with no
\* alarm
Mount ==
    /\ UNCHANGED early
    /\ ~mounted /\ setupPc = "mount"
    /\ mounted' = TRUE
    /\ setupPc' = "permissions"
    /\ storage' = PersistEffect(meals)
    /\ LET v == VibrationBody([ref |-> vibrationIntervalRef, timers |-> timers,
                               vibrating |-> vibrating,
                               sentence |-> alarmSentence], activeAlarm)
       IN /\ alarmSentence' = v.sentence
          /\ vibrationIntervalRef' = v.ref
          /\ timers' = v.timers
          /\ vibrating' = v.vibrating
    /\ finished' = 0
    /\ UNCHANGED <<screen, alert, setupRaw, activeAlarm, formVars,
                   serviceVars, callVars, meals>>
    /\ UNCHANGED <<recent, probeVars>>

\* await getPermissionsAsync(), await requestPermissionsAsync() with the
\* Alert.alert when it is not granted, await setNotificationChannelAsync();
\* then AsyncStorage.getItem is issued
SetupPermissions ==
    /\ UNCHANGED early
    /\ mounted /\ setupPc = "permissions"
    /\ \E granted \in BOOLEAN :
          alert' = IF granted THEN alert ELSE "Notifications are off"
    /\ setupPc' = "getItem"
    /\ setupRaw' = storage
    /\ finished' = 0
    /\ UNCHANGED <<screen, mounted, alarmVars, formVars, serviceVars,
                   callVars, storeVars>>
    /\ UNCHANGED <<recent, probeVars>>

\* getItem resolves and setupNotifications resumes:
\* if (raw) setMeals(JSON.parse(raw)); then
\* getLastNotificationResponseAsync is called
SetupGetItem ==
    /\ UNCHANGED early
    /\ mounted /\ setupPc = "getItem"
    /\ setupPc' = "getLastResponse"
    /\ setupRaw' = <<>>
    /\ IF setupRaw # <<>>
       THEN SetMeals(JSONparse(setupRaw[1]))
       ELSE UNCHANGED storeVars
    /\ finished' = 0
    /\ UNCHANGED <<screen, alert, mounted, alarmVars, formVars, serviceVars,
                   callVars>>
    /\ UNCHANGED <<recent, probeVars>>

\* data?.mealId && data.mealName
ValidData(data) == data.mealId # 0 /\ data.mealName # <<>>

\* getLastNotificationResponseAsync() resolves and setupNotifications ends;
\* nothing reads the last response afterwards, so the model forgets it
SetupLastResponse ==
    /\ early' = 0
    /\ mounted /\ setupPc = "getLastResponse"
    /\ setupPc' = "done"
    /\ IF lastResponse # <<>> /\ ValidData(lastResponse[1])
       THEN SetActiveAlarm(<<[mealId   |-> lastResponse[1].mealId,
                              mealName |-> lastResponse[1].mealName]>>)
       ELSE KeepActiveAlarm
    /\ lastResponse' = <<>>
    /\ finished' = 0
    /\ UNCHANGED <<screen, alert, mounted, setupRaw, formVars, triggers,
                   canceledTriggers, callVars, storeVars>>
    /\ UNCHANGED <<recent, probeVars>>

\* ----------------------------------------- notification listeners (111-139)
\* the payloads of the notifications the service can deliver: those of the
\* triggers scheduled so far, and one that is not a meal reminder
EventData == {t.data : t \in triggers \cup canceledTriggers} \cup {ForeignData}

\* addNotificationReceivedListener callback
NotificationReceived(data) ==
    /\ OtherStep
    /\ mounted
    /\ IF ~(data.mealId # 0) \/ ~(data.mealName # <<>>)
       THEN UNCHANGED <<screen, alarmVars>>
       ELSE /\ SetActiveAlarm(<<[mealId |-> data.mealId, mealName |-> data.mealName]>>)
            /\ screen' = "foodWastePreventer"
    /\ finished' = 0
    /\ UNCHANGED <<alert, mounted, setupPc, setupRaw, formVars, callVars, storeVars>>

\* variant of NotificationResponseReceived: a tap handler that starts the
\* session and leaves the screen alone
NotificationResponseReceivedNoScreen(data) ==
    /\ OtherStep
    /\ mounted
    /\ IF ~(data.mealId # 0) \/ ~(data.mealName # <<>>)
       THEN UNCHANGED <<screen, alarmVars>>
       ELSE /\ SetActiveAlarm(<<[mealId |-> data.mealId, mealName |-> data.mealName]>>)
            /\ UNCHANGED screen
    /\ finished' = 0
    /\ UNCHANGED <<alert, mounted, setupPc, setupRaw, formVars, callVars, storeVars>>

\* addNotificationResponseReceivedListener callback
NotificationResponseReceived(data) ==
    /\ OtherStep
    /\ mounted
    /\ IF ~(data.mealId # 0) \/ ~(data.mealName # <<>>)
       THEN UNCHANGED <<screen, alarmVars>>
       ELSE /\ SetActiveAlarm(<<[mealId |-> data.mealId, mealName |-> data.mealName]>>)
            /\ screen' = "foodWastePreventer"
    /\ finished' = 0
    /\ UNCHANGED <<alert, mounted, setupPc, setupRaw, formVars, callVars, storeVars>>

\* a notification is delivered while the app is in the foreground
Delivered(data) ==
    /\ NotificationReceived(data)
    /\ UNCHANGED serviceVars
    /\ recent' = IF ValidData(data)
                 THEN <<[mealId |-> data.mealId, mealName |-> data.mealName]>>
                 ELSE recent
    /\ UNCHANGED probeVars

\* the user taps a notification: the service keeps the response as the one
\* getLastNotificationResponseAsync returns and calls the listener.  The
\* model keeps the response only until setupNotifications has read it, and
\* only if its data passes the check setupNotifications makes.
Tapped(data) ==
    /\ NotificationResponseReceived(data)
    /\ lastResponse' = IF setupPc = "done" \/ ~ValidData(data) THEN <<>>
                       ELSE <<data>>
    /\ UNCHANGED <<triggers, canceledTriggers>>
    /\ recent' = IF ValidData(data)
                 THEN <<[mealId |-> data.mealId, mealName |-> data.mealName]>>
                 ELSE recent
    /\ UNCHANGED probeVars

\* ------------------------------------------------------------ navigation
\* the user can press what is on the current screen while neither the
\* alarm modal nor an alert dialog covers it
ScreenReachable(s) ==
    mounted /\ screen = s /\ ~ModalVisible /\ alert = NoAlert

\* the alarm modal can be used while it is shown and no alert covers it
ModalReachable ==
    mounted /\ ModalVisible /\ alert = NoAlert

\* onPress={() => setScreen('foodWastePreventer')}
OpenTool ==
    /\ OtherStep
    /\ ScreenReachable("tools")
    /\ screen' = "foodWastePreventer"
    /\ finished' = 0
    /\ UNCHANGED <<alert, mounted, setupPc, setupRaw, alarmVars, formVars, serviceVars,
                   callVars, storeVars>>
    /\ UNCHANGED <<recent, probeVars>>

\* onPress={() => setScreen('tools')}
Back ==
    /\ OtherStep
    /\ ScreenReachable("foodWastePreventer")
    /\ screen' = "tools"
    /\ finished' = 0
    /\ UNCHANGED <<alert, mounted, setupPc, setupRaw, alarmVars, formVars, serviceVars,
                   callVars, storeVars>>
    /\ UNCHANGED <<recent, probeVars>>

\* the user closes an alert dialog
DismissAlert ==
    /\ OtherStep
    /\ mounted /\ alert # NoAlert
    /\ alert' = NoAlert
    /\ finished' = 0
    /\ UNCHANGED <<screen, mounted, setupPc, setupRaw, alarmVars, formVars, serviceVars,
                   callVars, storeVars>>
    /\ UNCHANGED <<recent, probeVars>>

\* ------------------------------------------------------- addMeal (166-205)
\* onChangeText={setMealName}
ChangeMealName(text) ==
    /\ OtherStep
    /\ ScreenReachable("foodWastePreventer")
    /\ mealName' = text
    /\ finished' = 0
    /\ UNCHANGED <<screen, alert, mounted, setupPc, setupRaw, alarmVars,
                   dailyTime, serviceVars, callVars, storeVars>>
    /\ UNCHANGED <<recent, probeVars>>

\* onChangeText={setDailyTime}
ChangeDailyTime(text) ==
    /\ OtherStep
    /\ ScreenReachable("foodWastePreventer")
    /\ dailyTime' = text
    /\ finished' = 0
    /\ UNCHANGED <<screen, alert, mounted, setupPc, setupRaw, alarmVars,
                   mealName, serviceVars, callVars, storeVars>>
    /\ UNCHANGED <<recent, probeVars>>

\* variant of AddMeal: the name is validated before it is trimmed
AddMealUntrimmedCheck ==
    /\ OtherStep
    /\ ScreenReachable("foodWastePreventer")
    /\ LET trimmedName == trim(mealName)
           parsedTime == parseTime(dailyTime)
       IN IF mealName = <<>>
          THEN /\ alert' = "Meal required"
               /\ UNCHANGED callVars
          ELSE IF parsedTime = <<>>
          THEN /\ alert' = "Time format"
               /\ UNCHANGED callVars
          ELSE /\ nextId < 2 + MaxAdds
               /\ addCalls' = addCalls \cup
                     {[id |-> nextId, trimmedName |-> trimmedName,
                       parsedTime |-> parsedTime[1],
                       notificationId |-> 0, pc |-> "scheduling"]}
               /\ nextId' = nextId + 1
               /\ UNCHANGED <<alert, cancelCalls, clock>>
    /\ finished' = 0
    /\ UNCHANGED <<screen, mounted, setupPc, setupRaw, alarmVars, formVars,
                   serviceVars, storeVars>>
    /\ UNCHANGED <<recent, probeVars>>

\* Add Daily Reminder is pressed.  addMeal up to its await: the two
\* validations, the id, and the call of scheduleNotificationAsync.
AddMeal ==
    /\ OtherStep
    /\ ScreenReachable("foodWastePreventer")
    /\ LET trimmedName == trim(mealName)
           parsedTime == parseTime(dailyTime)
       IN IF trimmedName = <<>>
          THEN /\ alert' = "Meal required"
               /\ UNCHANGED callVars
          ELSE IF parsedTime = <<>>
          THEN /\ alert' = "Time format"
               /\ UNCHANGED callVars
          ELSE /\ nextId < 2 + MaxAdds
               /\ addCalls' = addCalls \cup
                     {[id |-> nextId, trimmedName |-> trimmedName,
                       parsedTime |-> parsedTime[1],
                       notificationId |-> 0, pc |-> "scheduling"]}
               /\ nextId' = nextId + 1
               /\ UNCHANGED <<alert, cancelCalls, clock>>
    /\ finished' = 0
    /\ UNCHANGED <<screen, mounted, setupPc, setupRaw, alarmVars, formVars,
                   serviceVars, storeVars>>
    /\ UNCHANGED <<recent, probeVars>>

\* the identifier the notification service returns for a request: a fresh
\* one for every request, named here after the id in the request's payload
NewIdentifier(mealId) == 100 + mealId

\* variant of ScheduleNotification: the request carries the hour in both
\* fields of the trigger
ScheduleNotificationHourTwice(call) ==
    /\ OtherStep
    /\ call \in addCalls /\ call.pc = "scheduling"
    /\ triggers' = triggers \cup
          {[identifier |-> NewIdentifier(call.id),
            hour |-> call.parsedTime.hour, minute |-> call.parsedTime.hour,
            data |-> [mealId |-> call.id, mealName |-> call.trimmedName]]}
    /\ addCalls' = (addCalls \ {call}) \cup
          {[call EXCEPT !.notificationId = NewIdentifier(call.id),
                        !.pc = "scheduled"]}
    /\ finished' = 0
    /\ UNCHANGED <<screen, alert, mounted, setupPc, setupRaw, alarmVars, formVars,
                   canceledTriggers, lastResponse, cancelCalls, nextId, clock,
                   storeVars>>
    /\ UNCHANGED <<recent, probeVars>>

\* the notification service registers the daily trigger and returns its
\* identifier
ScheduleNotification(call) ==
    /\ OtherStep
    /\ call \in addCalls /\ call.pc = "scheduling"
    /\ triggers' = triggers \cup
          {[identifier |-> NewIdentifier(call.id),
            hour |-> call.parsedTime.hour, minute |-> call.parsedTime.minute,
            data |-> [mealId |-> call.id, mealName |-> call.trimmedName]]}
    /\ addCalls' = (addCalls \ {call}) \cup
          {[call EXCEPT !.notificationId = NewIdentifier(call.id),
                        !.pc = "scheduled"]}
    /\ finished' = 0
    /\ UNCHANGED <<screen, alert, mounted, setupPc, setupRaw, alarmVars, formVars,
                   canceledTriggers, lastResponse, cancelCalls, nextId, clock,
                   storeVars>>
    /\ UNCHANGED <<recent, probeVars>>

\* variant of AddMealResume: the entry keeps the meal's id where the
\* notification identifier belongs
AddMealResumeWrongHandle(call) ==
    /\ OtherStep
    /\ mounted
    /\ call \in addCalls /\ call.pc = "scheduled"
    /\ LET nextEntry == [id |-> call.id, name |-> call.trimmedName,
                         hour |-> call.parsedTime.hour,
                         minute |-> call.parsedTime.minute,
                         notificationId |-> call.id,
                         createdAt |-> clock]
       IN SetMeals(<<nextEntry>> \o meals)
    /\ mealName' = <<>>
    /\ addCalls' = addCalls \ {call}
    /\ clock' = clock + 1
    /\ finished' = 0
    /\ UNCHANGED <<screen, alert, mounted, setupPc, setupRaw, alarmVars, dailyTime,
                   serviceVars, cancelCalls, nextId>>
    /\ UNCHANGED <<recent, probeVars>>

\* variant of AddMealResume: the new entry goes to the end of the list
AddMealResumeAppends(call) ==
    /\ OtherStep
    /\ mounted
    /\ call \in addCalls /\ call.pc = "scheduled"
    /\ LET nextEntry == [id |-> call.id, name |-> call.trimmedName,
                         hour |-> call.parsedTime.hour,
                         minute |-> call.parsedTime.minute,
                         notificationId |-> call.notificationId,
                         createdAt |-> clock]
       IN SetMeals(meals \o <<nextEntry>>)
    /\ mealName' = <<>>
    /\ addCalls' = addCalls \ {call}
    /\ clock' = clock + 1
    /\ finished' = 0
    /\ UNCHANGED <<screen, alert, mounted, setupPc, setupRaw, alarmVars, dailyTime,
                   serviceVars, cancelCalls, nextId>>
    /\ UNCHANGED <<recent, probeVars>>

\* addMeal after its await: nextEntry, setMeals, setMealName('')
AddMealResume(call) ==
    /\ OtherStep
    /\ mounted
    /\ call \in addCalls /\ call.pc = "scheduled"
    /\ LET nextEntry == [id |-> call.id, name |-> call.trimmedName,
                         hour |-> call.parsedTime.hour,
                         minute |-> call.parsedTime.minute,
                         notificationId |-> call.notificationId,
                         createdAt |-> clock]
       IN SetMeals(<<nextEntry>> \o meals)
    /\ mealName' = <<>>
    /\ addCalls' = addCalls \ {call}
    /\ clock' = clock + 1
    /\ finished' = 0
    /\ UNCHANGED <<screen, alert, mounted, setupPc, setupRaw, alarmVars, dailyTime,
                   serviceVars, cancelCalls, nextId>>
    /\ UNCHANGED <<recent, probeVars>>

\* ----------------------------------------------- cancelMealAlarm (207-220)
\* cancelMealAlarm(mealId) up to its await: the lookup in the meals of the
\* render the callback belongs to, and the call of
\* cancelScheduledNotificationAsync.  The callback keeps the mealId of that
\* render's activeAlarm (0: none).  finished marks the state in which a call
\* made by Cancel This Alarm has just returned.  cancelCalls is the bag of
\* the calls in flight.
CancelMealAlarm(mealId, fromAlarm) ==
    LET target == FindMeal(meals, mealId)
    IN IF target = <<>>
       THEN /\ finished' = IF fromAlarm THEN mealId ELSE 0
            /\ UNCHANGED cancelCalls
       ELSE /\ BagCardinality(cancelCalls) < MaxCancelCalls
            /\ cancelCalls' = cancelCalls (+) SetToBag(
                  {[mealId |-> mealId,
                    notificationId |-> target[1].notificationId,
                    alarmMealId |-> IF activeAlarm = <<>> THEN 0
                                    ELSE activeAlarm[1].mealId,
                    fromAlarm |-> fromAlarm,
                    pc |-> "canceling"]})
            /\ finished' = 0

\* onPress={() => void cancelMealAlarm(item.id)} of a list item
CancelItem(i) ==
    /\ OtherStep
    /\ ScreenReachable("foodWastePreventer")
    /\ i \in 1..Len(meals)
    /\ CancelMealAlarm(meals[i].id, FALSE)
    /\ UNCHANGED <<screen, alert, mounted, setupPc, setupRaw, alarmVars,
                   formVars, serviceVars, addCalls, nextId, clock, storeVars>>
    /\ UNCHANGED <<recent, probeVars>>

\* what the user may type into the confirmation field of the alarm modal
SentenceInputs ==
    IF activeAlarm = <<>> THEN {}
    ELSE {TypedGood(activeAlarm[1].mealName),
          TypedBad(activeAlarm[1].mealName)}

\* onChangeText={setAlarmSentence}
ChangeAlarmSentence(text) ==
    /\ OtherStep
    /\ ModalReachable
    /\ alarmSentence' = text
    /\ finished' = 0
    /\ UNCHANGED <<screen, alert, mounted, setupPc, setupRaw, activeAlarm,
                   vibrationIntervalRef, timers, vibrating, formVars,
                   serviceVars, callVars, storeVars>>
    /\ UNCHANGED <<recent, probeVars>>

\* Cancel This Alarm, rendered when canAcknowledge:
\* if (activeAlarm) void cancelMealAlarm(activeAlarm.mealId)
CancelThisAlarm ==
    /\ OtherStep
    /\ ModalReachable
    /\ canAcknowledge(alarmSentence, activeAlarm)
    /\ CancelMealAlarm(activeAlarm[1].mealId, TRUE)
    /\ UNCHANGED <<screen, alert, mounted, setupPc, setupRaw, alarmVars, formVars,
                   serviceVars, addCalls, nextId, clock, storeVars>>
    /\ UNCHANGED <<recent, probeVars>>

\* variant of Dismiss: the button also drops the session's meal from the
\* list
DismissDropsMeal ==
    /\ OtherStep
    /\ ModalReachable
    /\ canAcknowledge(alarmSentence, activeAlarm)
    /\ SetActiveAlarm(<<>>)
    /\ SetMeals(FilterOut(meals, activeAlarm[1].mealId))
    /\ finished' = 0
    /\ UNCHANGED <<screen, alert, mounted, setupPc, setupRaw, formVars,
                   serviceVars, callVars>>
    /\ UNCHANGED <<recent, probeVars>>

\* Dismiss For Now, rendered when canAcknowledge:
\* onPress={() => setActiveAlarm(null)}
Dismiss ==
    /\ OtherStep
    /\ ModalReachable
    /\ canAcknowledge(alarmSentence, activeAlarm)
    /\ SetActiveAlarm(<<>>)
    /\ finished' = 0
    /\ UNCHANGED <<screen, alert, mounted, setupPc, setupRaw, formVars,
                   serviceVars, callVars, storeVars>>
    /\ UNCHANGED <<recent, probeVars>>

\* the notification service cancels the trigger (no error when it is gone)
CancelNotification(call) ==
    /\ OtherStep
    /\ BagIn(call, cancelCalls) /\ call.pc = "canceling"
    /\ LET gone == {t \in triggers : t.identifier = call.notificationId}
       IN /\ triggers' = triggers \ gone
          /\ canceledTriggers' = canceledTriggers \cup gone
    /\ cancelCalls' = (cancelCalls (-) SetToBag({call}))
                         (+) SetToBag({[call EXCEPT !.pc = "canceled"]})
    /\ finished' = 0
    /\ UNCHANGED <<screen, alert, mounted, setupPc, setupRaw, alarmVars,
                   formVars, lastResponse, addCalls, nextId, clock, storeVars>>
    /\ UNCHANGED <<recent, probeVars>>

\* cancelMealAlarm after its await: the filter, and setActiveAlarm(null)
\* when the activeAlarm of the callback's render was for this meal
CancelMealAlarmResume(call) ==
    /\ OtherStep
    /\ mounted
    /\ BagIn(call, cancelCalls) /\ call.pc = "canceled"
    /\ SetMeals(FilterOut(meals, call.mealId))
    /\ IF call.alarmMealId = call.mealId
       THEN SetActiveAlarm(<<>>)
       ELSE KeepActiveAlarm
    /\ finished' = IF call.fromAlarm THEN call.mealId ELSE 0
    /\ cancelCalls' = cancelCalls (-) SetToBag({call})
    /\ UNCHANGED <<screen, alert, mounted, setupPc, setupRaw, formVars,
                   serviceVars, addCalls, nextId, clock>>
    /\ UNCHANGED <<recent, probeVars>>

\* ---------------------------------------------------------------- teardown
\* the component is unmounted: the cleanups of its effects run (the
\* listeners are removed, the vibration effect's cleanup runs if the last
\* render had an alarm) and its state is discarded; no handler or
\* continuation of the component runs afterwards
Unmount ==
    /\ early' = 0
    /\ mounted
    /\ mounted' = FALSE
    /\ setupPc' = "unmounted"
    /\ LET v0 == [ref |-> vibrationIntervalRef, timers |-> timers,
                  vibrating |-> vibrating, sentence |-> alarmSentence]
           v == IF activeAlarm # <<>> THEN VibrationCleanup(v0) ELSE v0
       IN /\ vibrationIntervalRef' = v.ref
          /\ timers' = v.timers
          /\ vibrating' = v.vibrating
    /\ screen' = "tools"
    /\ meals' = <<>>
    /\ mealName' = <<>>
    /\ dailyTime' = DefaultDailyTime
    /\ activeAlarm' = <<>>
    /\ alarmSentence' = <<>>
    /\ alert' = NoAlert
    /\ setupRaw' = <<>>
    /\ finished' = 0
    /\ UNCHANGED <<serviceVars, callVars, storage>>
    /\ UNCHANGED <<recent, probeVars>>

\* ------------------------------------------------------------------- next
Next ==
    \/ Mount
    \/ SetupPermissions
    \/ SetupGetItem
    \/ SetupLastResponse
    \/ \E data \in EventData : Delivered(data)
    \/ \E data \in EventData : Tapped(data)
    \/ OpenTool
    \/ Back
    \/ DismissAlert
    \/ \E text \in MealNameInputs : ChangeMealName(text)
    \/ \E text \in DailyTimeInputs : ChangeDailyTime(text)
    \/ AddMeal
    \/ \E call \in addCalls : ScheduleNotification(call)
    \/ \E call \in addCalls : AddMealResume(call)
    \/ \E i \in 1..Len(meals) : CancelItem(i)
    \/ \E text \in SentenceInputs : ChangeAlarmSentence(text)
    \/ CancelThisAlarm
    \/ Dismiss
    \/ \E call \in BagToSet(cancelCalls) : CancelNotification(call)
    \/ \E call \in BagToSet(cancelCalls) : CancelMealAlarmResume(call)
    \/ Unmount

Spec == Init /\ [][Next]_vars

\* ================================================================ properties

\* C1: in every reachable state, the states between the steps of addMeal,
\* cancelMealAlarm and the startup load included, every entry of the meal
\* list whose trigger has not been canceled by cancelMealAlarm has exactly
\* one active trigger: the one its notificationId names, which is also the
\* only active trigger carrying the entry's id.
C1_EntryHasItsTrigger ==
    \A i \in 1..Len(meals) :
        (\A t \in canceledTriggers : t.identifier # meals[i].notificationId)
        => /\ Cardinality({t \in triggers :
                              t.identifier = meals[i].notificationId}) = 1
           /\ {t \in triggers : t.data.mealId = meals[i].id}
                 = {t \in triggers : t.identifier = meals[i].notificationId}

\* an entry with its trigger active while the cancelMealAlarm of another
\* entry is between the cancellation of its trigger and its removal
C1_Witness ==
    \E i \in 1..Len(meals) :
        /\ \E t \in triggers : t.identifier = meals[i].notificationId
        /\ \E call \in BagToSet(cancelCalls) :
              call.pc = "canceled" /\ call.mealId # meals[i].id

\* C2: whenever no addMeal, no cancelMealAlarm and no startup load is in
\* flight, every active trigger that addMeal scheduled in this run is the
\* notificationId of exactly one entry of the meal list.
C2_NoOrphanedTriggers ==
    (mounted /\ setupPc = "done" /\ addCalls = {} /\ cancelCalls = EmptyBag)
    => \A t \in triggers \ {OldTrigger} :
          Cardinality({i \in 1..Len(meals) :
                          meals[i].notificationId = t.identifier}) = 1

\* C3: while the component lives, activeAlarm goes from a session to null
\* only in a step at whose start the typed confirmation text, trimmed and
\* lowercased, equals the required sentence of the session active then.
C3_LeavesActiveOnlyOnMatch ==
    [][(mounted' /\ activeAlarm # <<>> /\ activeAlarm' = <<>>)
       => canAcknowledge(alarmSentence, activeAlarm)]_vars

\* C4: when cancelMealAlarm, after its await, removes the meal whose id is
\* the mealId of the session active at that moment, the session becomes
\* idle and the vibration pulse stops.
C4_RemovalEndsSession ==
    [][\A call \in BagToSet(cancelCalls) :
          (/\ CancelMealAlarmResume(call)
           /\ activeAlarm # <<>>
           /\ activeAlarm[1].mealId = call.mealId)
          => /\ activeAlarm' = <<>>
             /\ timers' = {}
             /\ ~vibrating']_vars

\* C5: at most one interval timer is live; while a session is active it
\* is the one vibrationIntervalRef holds; none is live while the session is
\* idle, and none after the component is torn down.
C5_OneIntervalTimer ==
    /\ Cardinality(timers) <= 1
    /\ (mounted /\ activeAlarm # <<>>) =>
          (vibrationIntervalRef # 0 /\ timers = {vibrationIntervalRef})
    /\ activeAlarm = <<>> => (timers = {} /\ vibrationIntervalRef = 0)
    /\ ~mounted => timers = {}

\* a session that replaced another one whose sentence was being typed: the
\* text left in the field is not the sentence of the session shown
C5_Witness ==
    /\ mounted
    /\ activeAlarm # <<>>
    /\ timers = {vibrationIntervalRef}
    /\ alarmSentence # <<>>
    /\ alarmSentence \notin SentenceInputs

\* C6: each of the three paths that start a session from a notification
\* with a valid payload (delivered, tapped, and the last response read at
\* startup) sets activeAlarm to that payload and sets the screen to
\* foodWastePreventer.
C6_SessionStartForcesToolScreen ==
    [][/\ \A data \in EventData :
             (ValidData(data) /\ (Delivered(data) \/ Tapped(data)))
             => /\ activeAlarm' = <<[mealId   |-> data.mealId,
                                     mealName |-> data.mealName]>>
                /\ screen' = "foodWastePreventer"
       /\ (SetupLastResponse /\ lastResponse # <<>> /\ ValidData(lastResponse[1]))
             => /\ activeAlarm' = <<[mealId   |-> lastResponse[1].mealId,
                                     mealName |-> lastResponse[1].mealName]>>
                /\ screen' = "foodWastePreventer"]_vars

\* C7: from any state and for any payload, the step the delivered-
\* notification handler takes and the step the tapped-notification handler
\* takes lead to the same state of the component; for a valid payload that
\* state has the session active with the payload and the tool screen shown.
C7_DeliveredAndTappedAgree ==
    [][\A data \in EventData :
          /\ NotificationReceived(data) <=> NotificationResponseReceived(data)
          /\ (NotificationReceived(data) /\ ValidData(data))
                => /\ activeAlarm' = <<[mealId   |-> data.mealId,
                                        mealName |-> data.mealName]>>
                   /\ screen' = "foodWastePreventer"]_vars

\* a listener has started a session while setupNotifications was running
C7_Witness ==
    /\ setupPc \in {"permissions", "getItem", "getLastResponse"}
    /\ activeAlarm # <<>>
    /\ screen = "foodWastePreventer"

\* C8: in the state in which a cancelMealAlarm started by Cancel This Alarm
\* has returned, the session is idle, the meal of the session it was pressed
\* for is not in the list, and no active trigger carries that meal's id.
C8_CancelThisAlarmEnds ==
    finished # 0
    => /\ activeAlarm = <<>>
       /\ FindMeal(meals, finished) = <<>>
       /\ \A t \in triggers : t.data.mealId # finished

\* C9: an addMeal whose name is empty after trimming, or whose time text
\* parseTime rejects, leaves the meal list, the stored value, the triggers,
\* the session, the input fields, the screen and the calls in flight as
\* they were; it shows one of the two alerts.
C9_RejectedAddChangesNothing ==
    [][(AddMeal /\ (trim(mealName) = <<>> \/ parseTime(dailyTime) = <<>>))
       => /\ UNCHANGED <<screen, meals, storage, mealName, dailyTime,
                         activeAlarm, alarmSentence, vibrationIntervalRef,
                         timers, vibrating, triggers, canceledTriggers,
                         lastResponse, addCalls, cancelCalls, nextId, clock,
                         mounted, setupPc, setupRaw>>
          /\ alert' \in {"Meal required", "Time format"}]_vars

\* addMeal has rejected a blank name
C9_Witness ==
    /\ alert = "Meal required"
    /\ mealName = Blank
    /\ addCalls = {}
    /\ triggers = {OldTrigger}

\* C10: an addMeal that passes validation makes one request, with a fresh id,
\* the trimmed (non-empty) name and the parsed time; the service registers
\* for it exactly one new trigger, with the parsed hour and minute, the
\* payload (id, trimmed name) and an unused identifier; the continuation
\* puts exactly one entry in front of the list, with that id, the trimmed
\* name, the parsed hour and minute, and the identifier returned for the
\* trigger, and leaves the other entries and the triggers as they were.
C10_AddMealRegistersAndStores ==
    [][/\ (AddMeal /\ addCalls' # addCalls)
          => /\ Cardinality(addCalls' \ addCalls) = 1
             /\ addCalls \subseteq addCalls'
             /\ \A c \in addCalls' \ addCalls :
                   /\ c.trimmedName = trim(mealName)
                   /\ c.trimmedName # <<>>
                   /\ <<c.parsedTime>> = parseTime(dailyTime)
                   /\ \A i \in 1..Len(meals) : meals[i].id # c.id
                   /\ \A t \in triggers \cup canceledTriggers :
                         t.data.mealId # c.id
                   /\ \A d \in addCalls : d.id # c.id
             /\ UNCHANGED <<meals, storage, triggers>>
       /\ \A call \in addCalls :
             ScheduleNotification(call)
             => /\ triggers \subseteq triggers'
                /\ Cardinality(triggers' \ triggers) = 1
                /\ \A t \in triggers' \ triggers :
                      /\ t.hour = call.parsedTime.hour
                      /\ t.minute = call.parsedTime.minute
                      /\ t.data = [mealId   |-> call.id,
                                   mealName |-> call.trimmedName]
                      /\ \A u \in triggers \cup canceledTriggers :
                            u.identifier # t.identifier
                /\ UNCHANGED <<meals, storage>>
       /\ \A call \in addCalls :
             AddMealResume(call)
             => /\ Len(meals') = Len(meals) + 1
                /\ Tail(meals') = meals
                /\ Head(meals').id = call.id
                /\ Head(meals').name = call.trimmedName
                /\ Head(meals').name # <<>>
                /\ Head(meals').hour = call.parsedTime.hour
                /\ Head(meals').minute = call.parsedTime.minute
                /\ \E t \in triggers \cup canceledTriggers :
                      /\ t.data.mealId = call.id
                      /\ t.identifier = Head(meals').notificationId
                /\ UNCHANGED triggers]_vars

\* " Tuna " with "18:00" has been added: an entry named "Tuna" at hour 18,
\* minute 0, and one active trigger for it
C10_Witness ==
    /\ meals # <<>>
    /\ Head(meals).name = <<"T","u","n","a">>
    /\ Head(meals).hour = 18
    /\ Head(meals).minute = 0
    /\ Cardinality({t \in triggers :
                       t.identifier = Head(meals).notificationId}) = 1
    /\ mealName = <<>>

\* C11: a cancelMealAlarm(id) called when no entry of the list has the id,
\* or when an earlier cancelMealAlarm of the same id has not finished yet,
\* does nothing: the list, the stored value, the triggers, the session and
\* the cancel calls made to the notification service stay as they were.
C11_CancelOfAbsentIsNoOp ==
    [][\A id \in {meals[i].id : i \in 1..Len(meals)}
                    \cup {activeAlarm[k].mealId : k \in 1..Len(activeAlarm)} :
          (/\ \/ \E i \in 1..Len(meals) : meals[i].id = id /\ CancelItem(i)
              \/ activeAlarm # <<>> /\ activeAlarm[1].mealId = id
                                    /\ CancelThisAlarm
           /\ \/ FindMeal(meals, id) = <<>>
              \/ \E c \in BagToSet(cancelCalls) : c.mealId = id)
          => UNCHANGED <<meals, storage, triggers, canceledTriggers,
                         cancelCalls, activeAlarm, alarmSentence, timers,
                         vibrationIntervalRef, vibrating>>]_vars

\* C12: while the component lives, the value the storage key holds once
\* the writes issued so far have completed is the serialized in-memory
\* list, and it parses back to that list: every change of the list (add,
\* cancel, startup load) is followed by a write of the whole new list, and
\* the last write wins.
C12_StoredListIsTheList ==
    mounted => /\ storage = <<JSONstringify(meals)>>
               /\ JSONparse(storage[1]) = meals

\* the list after the startup load, an add and a cancel
C12_Witness ==
    /\ mounted
    /\ setupPc = "done"
    /\ Len(meals) = 1
    /\ canceledTriggers # {}
    /\ cancelCalls = EmptyBag
    /\ storage = <<JSONstringify(meals)>>

\* C13: Dismiss For Now ends the session and leaves the meal list, the
\* stored list, the active triggers and the calls in flight as they were.
C13_DismissKeepsMealAndTrigger ==
    [][Dismiss => /\ activeAlarm' = <<>>
                  /\ UNCHANGED <<meals, storage, triggers, canceledTriggers,
                                 addCalls, cancelCalls>>]_vars

\* a session for a meal of the list has been dismissed (nothing was ever
\* canceled): the session is idle, the meal is in the list and its trigger
\* is active
C13_Witness ==
    /\ mounted
    /\ activeAlarm = <<>>
    /\ recent # <<>>
    /\ canceledTriggers = {}
    /\ cancelCalls = EmptyBag
    /\ FindMeal(meals, recent[1].mealId) # <<>>
    /\ \E t \in triggers :
          /\ t.data.mealId = recent[1].mealId
          /\ t.identifier = FindMeal(meals, recent[1].mealId)[1].notificationId

\* C14: the list is in most-recently-added-first order: of two entries the
\* one put into the list later (the greater createdAt) comes first.
C14_MostRecentFirst ==
    \A i \in 1..Len(meals) : \A j \in 1..Len(meals) :
        i < j => meals[i].createdAt > meals[j].createdAt

\* two addMeal calls were in flight at once and the one made first
\* finished last: its entry is in front
C14_Witness ==
    /\ Len(meals) = 2
    /\ meals[1].id < meals[2].id
    /\ meals[1].createdAt > meals[2].createdAt

\* ============================================ functions applied on their own
\* the variables of the app, which stay as constructed while a function is
\* applied on its own
appVars == <<screen, meals, mealName, dailyTime, activeAlarm, alarmSentence,
             vibrationIntervalRef, timers, vibrating, alert, mounted,
             setupPc, setupRaw, lastResponse, storage,
             triggers, canceledTriggers, addCalls, cancelCalls,
             nextId, clock, finished, early, recent>>

\* ---- formatTime, then parseTime of its result
\* every valid (hour, minute)
TimePairs == {[hour |-> h, minute |-> m] : h \in 0..23, m \in 0..59}

FormatInit ==
    /\ AppInit
    /\ input \in TimePairs
    /\ output = <<>>

\* formatTime(hour, minute)
FormatTimeCall ==
    /\ output = <<>>
    /\ output' = <<formatTime(input.hour, input.minute)>>
    /\ UNCHANGED <<input, appVars>>

\* parseTime of the text formatTime returned
ParseFormattedCall ==
    /\ Len(output) = 1
    /\ output' = output \o <<parseTime(output[1])>>
    /\ UNCHANGED <<input, appVars>>

FormatNext ==
    \/ FormatTimeCall
    \/ ParseFormattedCall

FormatSpec == FormatInit /\ [][FormatNext]_vars

\* ---- parseTime of a text
\* the characters of the generated texts
TimeAlphabet == {"1", "2", "4", "6", ":", " "}

\* the texts named by the specification, and some next to them
TimeExamples ==
    {<<"2","4",":","0","0">>, <<"1","2",":","6","0">>, <<"1","8","3","0">>,
     <<>>, <<"9",":","5">>, <<" ","1","8",":","3","0"," ">>,
     <<"1","8",":","3","0">>, <<"1","8","-","3","0">>,
     <<"1","8",".","3","0">>, <<"9",":","0","5">>, <<"0","9",":","0","5">>,
     <<"2","3",":","5","9">>, <<"0",":","0","0">>, <<"1","8",":","3","0","\n">>}

\* the texts given to parseTime: the examples and every text of up to
\* MaxTextLen characters of TimeAlphabet
TimeTexts ==
    TimeExamples \cup UNION {[1..n -> TimeAlphabet] : n \in 0..MaxTextLen}

ParseInit ==
    /\ AppInit
    /\ input \in TimeTexts
    /\ output = <<>>

\* parseTime(raw)
ParseTimeCall ==
    /\ output = <<>>
    /\ output' = <<parseTime(input)>>
    /\ UNCHANGED <<input, appVars>>

ParseNext == ParseTimeCall

ParseSpec == ParseInit /\ [][ParseNext]_vars

\* ---- canAcknowledge of a typed text and a session
TunaCasserole == <<"T","u","n","a"," ","C","a","s","s","e","r","o","l","e">>
MealNames == {Soup, <<"T","u","n","a">>, TunaCasserole}

\* the sentence in title case, as in "My Name Is Sarah ... Today"
TypedTitle(name) ==
    Tail(TypedPrefix) \o name \o <<" ","T","o","d","a","y">>
\* the sentence with two blanks before the meal name
TypedInnerBlank(name) ==
    SentencePrefix \o <<" ">> \o toLowerCase(name) \o SentenceSuffix
\* the sentence without its last word
TypedPartial(name) == SentencePrefix \o toLowerCase(name)
\* the sentence exactly
TypedExact(name) == SentencePrefix \o toLowerCase(name) \o SentenceSuffix

\* what the user may type when a meal name is shown
TypedTexts ==
    {<<>>, Blank} \cup UNION {{TypedExact(n), TypedGood(n), TypedTitle(n),
                               TypedBad(n), TypedInnerBlank(n),
                               TypedPartial(n)} : n \in MealNames}

SentenceInit ==
    /\ AppInit
    /\ input \in [text : TypedTexts, mealId : {1, 2}, mealName : MealNames]
    /\ output = <<>>

\* canAcknowledge for the typed text and a session with the meal name
CanAcknowledgeCall ==
    /\ output = <<>>
    /\ output' = <<canAcknowledge(input.text,
                                  <<[mealId   |-> input.mealId,
                                     mealName |-> input.mealName]>>)>>
    /\ UNCHANGED <<input, appVars>>

SentenceNext == CanAcknowledgeCall

SentenceSpec == SentenceInit /\ [][SentenceNext]_vars

\* C15: for every hour in 0..23 and minute in 0..59, formatTime renders
\* five characters, two digits, a colon and two digits, which read as the
\* hour and the minute, and parseTime of that text is {hour, minute}.
C15_FormatParseRoundTrip ==
    /\ Len(output) >= 1
          => /\ Len(output[1]) = 5
             /\ output[1][3] = ":"
             /\ \A k \in {1, 2, 4, 5} : IsDigit(output[1][k])
             /\ Number(SubSeq(output[1], 1, 2)) = input.hour
             /\ Number(SubSeq(output[1], 4, 5)) = input.minute
    /\ Len(output) = 2
          => output[2] = <<[hour |-> input.hour, minute |-> input.minute]>>

\* 9 hours 5 minutes was rendered as "09:05" and parsed back
C15_Witness ==
    /\ Len(output) = 2
    /\ input = [hour |-> 9, minute |-> 5]
    /\ output[1] = <<"0","9",":","0","5">>
    /\ output[2] = <<[hour |-> 9, minute |-> 5]>>

\* C16: parseTime returns a result exactly for the texts that are H:MM or
\* HH:MM with an hour 0..23 and a two-digit minute 00..59, and then the
\* result is that hour and minute; for every other text, those with
\* surrounding whitespace included, it returns null.
C16_ParseTimeAcceptsExactFormOnly ==
    Len(output) = 1
    => /\ output[1] # <<>>
            <=> \E h \in 0..23, m \in 0..59 :
                   \/ input = toString(h) \o <<":">> \o padStart(toString(m), 2)
                   \/ input = padStart(toString(h), 2) \o <<":">>
                                 \o padStart(toString(m), 2)
       /\ \A h \in 0..23, m \in 0..59 :
             (\/ input = toString(h) \o <<":">> \o padStart(toString(m), 2)
              \/ input = padStart(toString(h), 2) \o <<":">>
                            \o padStart(toString(m), 2))
             => output[1] = <<[hour |-> h, minute |-> m]>>

\* C17: canAcknowledge depends on the typed text and the meal name only,
\* and is true exactly when the text, trimmed and lowercased, is "my name
\* is sarah and i will use the " + lowercase(mealName) + " today": the
\* sentence in any letter case and with blanks around it matches; an extra
\* inner blank, trailing punctuation, a partial sentence or no text do not.
C17_UnlockCheck ==
    Len(output) = 1
    => /\ output[1] = (toLowerCase(trim(input.text))
                          = SentencePrefix \o toLowerCase(input.mealName)
                               \o SentenceSuffix)
       /\ input.text \in {TypedExact(input.mealName), TypedGood(input.mealName),
                          TypedTitle(input.mealName)}
             => output[1]
       /\ input.text \in {TypedBad(input.mealName),
                          TypedInnerBlank(input.mealName),
                          TypedPartial(input.mealName), <<>>, Blank}
             => ~output[1]
       /\ \A n \in MealNames :
             (toLowerCase(n) # toLowerCase(input.mealName)
              /\ input.text \in {TypedExact(n), TypedGood(n), TypedTitle(n)})
             => ~output[1]

\* "My Name Is Sarah And I Will Use The Tuna Casserole Today" was typed for
\* the meal Tuna Casserole and unlocks
C17_Witness ==
    /\ Len(output) = 1
    /\ input.mealName = TunaCasserole
    /\ input.text = TypedTitle(TunaCasserole)
    /\ output[1]

\* C18: every step that starts a session (a delivered or tapped
\* notification with a valid payload, or the last response read at
\* startup) leaves the confirmation text empty, and every step in which
\* the session becomes idle leaves it empty.
C18_BufferEmptyOnEntryAndExit ==
    [][/\ (\/ \E data \in EventData :
                 ValidData(data) /\ (Delivered(data) \/ Tapped(data))
           \/ SetupLastResponse /\ lastResponse # <<>>
                                /\ ValidData(lastResponse[1]))
          => alarmSentence' = <<>>
       /\ (activeAlarm # <<>> /\ activeAlarm' = <<>>)
          => alarmSentence' = <<>>]_vars

\* C19: there is one session at most, and whenever it is active it holds
\* the payload of the most recent notification event that carried a valid
\* payload.
C19_SessionHoldsMostRecentEvent ==
    (mounted /\ activeAlarm # <<>>) => activeAlarm = recent

\* C20: from process start until the startup read of the storage key has
\* returned, the key holds what the previous run stored, and the startup
\* load makes the in-memory list the list that was stored when the process
\* started.
C20_SavedListSurvivesRestart ==
    [][/\ setupPc' \in {"permissions", "getItem"}
          => storage' = <<JSONstringify(<<OldMeal>>)>>
       /\ SetupGetItem => meals' = <<OldMeal>>]_vars

====
